---- MODULE Spec2Model ----
(***************************************************************************)
(* A model of the rust-sitter JSON example:                                *)
(*   - parser.rs  unescape (the string-escape decoder), the JsonString     *)
(*     and JsonNumber leaves (token pattern + transform closure);          *)
(*   - app.rs     convert_parse_error_to_diagnostics and main's loop.      *)
(* Characters are Unicode scalar values (naturals), strings are sequences  *)
(* of characters, a Vec<u16> is a sequence of naturals below 2^16.         *)
(***************************************************************************)
EXTENDS Integers, Sequences, FiniteSets

VARIABLES
    s,        \* unescape: the characters s.chars() has yielded so far
    t,        \* unescape: Vec<u16>, the code-unit buffer
    unicode,  \* unescape: bool
    encoded,  \* unescape: u16 accumulator
    escape,   \* unescape: the number of characters to escape
    pc,       \* unescape: "idle" | "loop" | "returned" | "panicked"
    result,   \* unescape: the returned Result<String, EscapeError>
    parsed,   \* JsonString leaf: the outcome of the transform closure
    src,      \* JsonNumber leaf: the source text at the token's start
    tokenLen, \* JsonNumber leaf: the length of the matched token
    npc,      \* JsonNumber leaf: "idle" | "lex" | "token" | "nomatch" | "done" | "panicked"
    value,    \* JsonNumber leaf: the f64 the transform produced
    errs,     \* main: the Vec<ParseError> parse returned
    ei,       \* main: the index of the next error of `for error in errs`
    diagnostics, \* main: Vec<Diagnostic>
    dpc       \* main: "idle" | "loop" | "exited"

unescapeVars == <<s, t, unicode, encoded, escape, pc, result, parsed>>
numberVars == <<src, tokenLen, npc, value>>
diagVars == <<errs, ei, diagnostics, dpc>>
vars == <<unescapeVars, numberVars, diagVars>>

----------------------------------------------------------------------------
(* Characters the scanner distinguishes (parser.rs:17-33, 49).             *)
CH_BACKSLASH == 92
CH_QUOTE == 34
CH_APOSTROPHE == 39
CH_SLASH == 47
CH_n == 110
CH_b == 98
CH_f == 102
CH_r == 114
CH_t == 116
CH_u == 117
CH_0 == 48
CH_9 == 57
CH_A == 65
CH_F == 70

(* A literal character outside the Basic Multilingual Plane (U+1F610).     *)
CH_ASTRAL == 128528

U16 == 65536

(* `c as u16`: a char-to-u16 cast keeps the low 16 bits.                    *)
AsU16(c) == c % U16

----------------------------------------------------------------------------
(* Bounds of the inputs.                                                   *)
MaxLen == 6
MaxEscapes == 2
MaxTail == 1

(* The characters arbitrary bodies are made of.                            *)
Alphabet ==
    {CH_BACKSLASH, CH_u, CH_b, CH_0, CH_9, CH_ASTRAL}

(* Code units whose \uXXXX spelling the longer bodies are made of:         *)
(* D83D and D800 (high surrogates), DE10 (a low surrogate).                *)
SurrogateUnits == {55357, 56848, 55296}

HexChar(d) == IF d < 10 THEN CH_0 + d ELSE CH_A + (d - 10)

(* The six characters \uXXXX (upper-case digits) spelling code unit u.     *)
EscapeOf(u) ==
    <<CH_BACKSLASH, CH_u, HexChar(u \div 4096), HexChar((u \div 256) % 16),
      HexChar((u \div 16) % 16), HexChar(u % 16)>>

RECURSIVE SeqsUpTo(_, _)
SeqsUpTo(S, n) ==
    IF n = 0 THEN {<<>>}
    ELSE LET shorter == SeqsUpTo(S, n - 1)
         IN  shorter \cup {Append(x, c) : x \in shorter, c \in S}

RECURSIVE Flatten(_)
Flatten(ss) == IF ss = <<>> THEN <<>> ELSE Head(ss) \o Flatten(Tail(ss))

(* Up to MaxEscapes well-formed escapes followed by up to MaxTail          *)
(* arbitrary characters, and every prefix of such a body.                  *)
EscapeBodies ==
    {Flatten(es) \o tl :
        es \in SeqsUpTo({EscapeOf(u) : u \in SurrogateUnits}, MaxEscapes),
        tl \in SeqsUpTo(Alphabet, MaxTail)}

EscapePrefixes ==
    UNION {{SubSeq(b, 1, n) : n \in 0..Len(b)} : b \in EscapeBodies}

(* Every character a body of the model can hold.                           *)
Chars == Alphabet \cup {HexChar(d) : d \in 0..15}

(* The bodies the model feeds to unescape.                                 *)
InputOK(b) ==
    \/ Len(b) <= MaxLen /\ \A k \in 1..Len(b) : b[k] \in Alphabet
    \/ b \in EscapePrefixes

----------------------------------------------------------------------------
(* unescape, parser.rs:9-62.                                               *)

Ok(v) == [tag |-> "Ok", val |-> v]
Err(e) == [tag |-> e, val |-> <<>>]
NoResult == [tag |-> "none", val |-> <<>>]

IsHigh(u) == 55296 <= u /\ u <= 56319
IsLow(u) == 56320 <= u /\ u <= 57343

(* String::from_utf16(&t): units are decoded left to right; a unit that    *)
(* is no surrogate is its own character, a high surrogate takes the low    *)
(* surrogate after it, anything else is an error.                          *)
RECURSIVE DecodeUtf16(_, _, _)
DecodeUtf16(v, i, acc) ==
    IF i > Len(v) THEN Ok(acc)
    ELSE IF ~IsHigh(v[i]) /\ ~IsLow(v[i]) THEN DecodeUtf16(v, i + 1, Append(acc, v[i]))
    ELSE IF IsLow(v[i]) THEN Err("FromUtf16Error")
    ELSE IF i + 1 > Len(v) \/ ~IsLow(v[i + 1]) THEN Err("FromUtf16Error")
    ELSE DecodeUtf16(v, i + 2,
            Append(acc, 65536 + (v[i] - 55296) * 1024 + (v[i + 1] - 56320)))

(* As String::from_utf16_lossy would: an unpaired surrogate becomes U+FFFD. *)
RECURSIVE DecodeUtf16Lossy(_, _, _)
DecodeUtf16Lossy(v, i, acc) ==
    IF i > Len(v) THEN Ok(acc)
    ELSE IF ~IsHigh(v[i]) /\ ~IsLow(v[i]) THEN DecodeUtf16Lossy(v, i + 1, Append(acc, v[i]))
    ELSE IF IsLow(v[i]) \/ i + 1 > Len(v) \/ ~IsLow(v[i + 1])
    THEN DecodeUtf16Lossy(v, i + 1, Append(acc, 65533))
    ELSE DecodeUtf16Lossy(v, i + 2,
            Append(acc, 65536 + (v[i] - 55296) * 1024 + (v[i + 1] - 56320)))

from_utf16_lossy(v) == DecodeUtf16Lossy(v, 1, <<>>)

from_utf16(v) == DecodeUtf16(v, 1, <<>>)

(* The tail of unescape with the two checks in the other order.            *)
UnescapeReturnReassembleFirst(t_, escape_) ==
    IF from_utf16(t_).tag # "Ok" THEN Err("UnicodeError")
    ELSE IF escape_ > 0 THEN Err("UnfinishedEscapeSequence")
    ELSE Ok(from_utf16(t_).val)

(* The tail of unescape after the loop (parser.rs:55-61).                  *)
UnescapeReturn(t_, escape_) ==
    IF escape_ > 0 THEN Err("UnfinishedEscapeSequence")
    ELSE IF from_utf16(t_).tag = "Ok" THEN Ok(from_utf16(t_).val)
    ELSE Err("UnicodeError")

(* The match on the character after a backslash (parser.rs:16-35): the     *)
(* arms in source order.  "u" is the arm that restarts a unicode escape,   *)
(* "panic" the catch-all arm, otherwise the u16 value of ch.  The ranges   *)
(* '0'..'9' and 'A'..'F' exclude their upper ends.                         *)
Value(ch) == [arm |-> "value", ch |-> ch]

MatchEscape(i, unicode_) ==
    IF i = CH_n THEN Value(10)
    ELSE IF i = CH_b THEN Value(8)
    ELSE IF i = CH_f THEN Value(12)
    ELSE IF i = CH_r THEN Value(13)
    ELSE IF i = CH_t THEN Value(9)
    ELSE IF i = CH_APOSTROPHE THEN Value(CH_APOSTROPHE)
    ELSE IF i = CH_QUOTE THEN Value(CH_QUOTE)
    ELSE IF i = CH_BACKSLASH THEN Value(CH_BACKSLASH)
    ELSE IF i = CH_SLASH THEN Value(CH_SLASH)
    ELSE IF i = CH_u THEN [arm |-> "u", ch |-> 0]
    ELSE IF CH_0 <= i /\ i < CH_9 /\ unicode_ THEN Value(AsU16(i) - CH_0)
    ELSE IF CH_A <= i /\ i < CH_F /\ unicode_ THEN Value(10 + AsU16(i) - CH_A)
    ELSE [arm |-> "panic", ch |-> 0]

Panic ==
    /\ pc' = "panicked"
    /\ UNCHANGED <<t, unicode, encoded, escape, result, parsed>>
    /\ UNCHANGED <<numberVars, diagVars>>

(* One iteration of `for i in s.chars()` (parser.rs:14-54).  wraps says    *)
(* whether the build wraps a u16 overflow (release) or panics on it        *)
(* (overflow checks on).                                                   *)
LoopIter(i, wraps) ==
    /\ pc = "loop"
    /\ InputOK(Append(s, i))
    /\ s' = Append(s, i)
    /\ UNCHANGED <<numberVars, diagVars>>
    /\ IF escape > 0 THEN
           LET m == MatchEscape(i, unicode)
               ch == m.ch
           IN
           IF m.arm = "panic" THEN Panic
           ELSE IF m.arm = "u" THEN
               /\ escape' = 4
               /\ unicode' = TRUE
               /\ encoded' = 0
               /\ UNCHANGED <<t, pc, result, parsed>>
           ELSE IF ~unicode THEN
               /\ escape' = escape - 1
               /\ t' = Append(t, ch)
               /\ UNCHANGED <<unicode, encoded, pc, result, parsed>>
           ELSE IF encoded * 16 + ch >= U16 /\ ~wraps THEN Panic
           ELSE
               LET e == (((encoded * 16) % U16) + ch) % U16 IN
               /\ escape' = escape - 1
               /\ encoded' = e
               /\ IF escape - 1 = 0
                  THEN t' = Append(t, e) /\ unicode' = FALSE
                  ELSE UNCHANGED <<t, unicode>>
               /\ UNCHANGED <<pc, result, parsed>>
       ELSE IF i = CH_BACKSLASH THEN
           /\ escape' = 1
           /\ UNCHANGED <<t, unicode, encoded, pc, result, parsed>>
       ELSE
           /\ t' = Append(t, AsU16(i))
           /\ UNCHANGED <<unicode, encoded, escape, pc, result, parsed>>

(* The iterator is exhausted: parser.rs:55-61.                             *)
Return ==
    /\ pc = "loop"
    /\ pc' = "returned"
    /\ result' = UnescapeReturn(t, escape)
    /\ UNCHANGED <<s, t, unicode, encoded, escape, parsed>>
    /\ UNCHANGED <<numberVars, diagVars>>

(* The JsonString leaf (parser.rs:100): the token "body" matches the       *)
(* pattern "([^\"]|\\")*" when every quote of the body follows a           *)
(* backslash; the transform is unescape(&v[1..v.len()-1]).expect("?").     *)
StringPatternMatches(body) ==
    \A k \in 1..Len(body) :
        body[k] = CH_QUOTE => k > 1 /\ body[k - 1] = CH_BACKSLASH

JsonStringTransform ==
    /\ pc = "returned"
    /\ parsed = "none"
    /\ StringPatternMatches(s)
    /\ parsed' = IF result.tag = "Ok" THEN "Ok" ELSE "panicked"
    /\ UNCHANGED <<s, t, unicode, encoded, escape, pc, result>>
    /\ UNCHANGED <<numberVars, diagVars>>

----------------------------------------------------------------------------
(* The JsonNumber leaf, parser.rs:122-126.                                 *)

CH_DOT == 46
CH_e == 101
CH_E == 69
CH_COMMA == 44

MaxSrc == 4

(* The characters number sources are made of.                              *)
NumAlphabet == {CH_0, CH_0 + 1, CH_DOT, CH_e, CH_E, CH_COMMA}

IsDigit(c) == CH_0 <= c /\ c <= CH_9

(* The number of digits of text from position i on.                        *)
RECURSIVE DigitRun(_, _)
DigitRun(text, i) ==
    IF i <= Len(text) /\ IsDigit(text[i]) THEN 1 + DigitRun(text, i + 1) ELSE 0

(* The length of the longest prefix of text the pattern                    *)
(* \d+\.?\d*[eE]?\d* matches (0: no match).  The pattern's parts are over  *)
(* disjoint characters, so taking each part greedily is the longest match. *)
NumberMatchLen(text) ==
    LET d1 == DigitRun(text, 1)
        p1 == 1 + d1
        p2 == IF p1 <= Len(text) /\ text[p1] = CH_DOT THEN p1 + 1 ELSE p1
        p3 == p2 + DigitRun(text, p2)
        p4 == IF p3 <= Len(text) /\ text[p3] \in {CH_e, CH_E} THEN p3 + 1 ELSE p3
        p5 == p4 + DigitRun(text, p4)
    IN  IF d1 = 0 THEN 0 ELSE p5 - 1

RECURSIVE DigitsValue(_)
DigitsValue(ds) ==
    IF ds = <<>> THEN 0
    ELSE DigitsValue(SubSeq(ds, 1, Len(ds) - 1)) * 10 + (ds[Len(ds)] - CH_0)

(* A decimal m * 10^e with its trailing zeros moved to the exponent: two   *)
(* texts denote the same number exactly when these agree.                  *)
RECURSIVE Decimal(_, _)
Decimal(m, e) ==
    IF m = 0 THEN [tag |-> "Ok", m |-> 0, e |-> 0]
    ELSE IF m % 10 = 0 THEN Decimal(m \div 10, e + 1)
    ELSE [tag |-> "Ok", m |-> m, e |-> e]

NoValue == [tag |-> "none", m |-> 0, e |-> 0]
ParseFloatError == [tag |-> "ParseFloatError", m |-> 0, e |-> 0]

(* v.parse::<f64>() on an unsigned text: digits with an optional '.', at   *)
(* least one digit in all, then an optional exponent, which is e or E      *)
(* followed by at least one digit; the whole text must be consumed.        *)
F64Parse(v) ==
    LET d1 == DigitRun(v, 1)
        p1 == 1 + d1
        dot == p1 <= Len(v) /\ v[p1] = CH_DOT
        p2 == IF dot THEN p1 + 1 ELSE p1
        d2 == IF dot THEN DigitRun(v, p2) ELSE 0
        p3 == p2 + d2
        ex == p3 <= Len(v) /\ v[p3] \in {CH_e, CH_E}
        p4 == IF ex THEN p3 + 1 ELSE p3
        d3 == IF ex THEN DigitRun(v, p4) ELSE 0
        p5 == p4 + d3
    IN  IF d1 + d2 = 0 \/ (ex /\ d3 = 0) \/ p5 # Len(v) + 1 THEN ParseFloatError
        ELSE Decimal(DigitsValue(SubSeq(v, 1, d1) \o SubSeq(v, p2, p3 - 1)),
                     DigitsValue(SubSeq(v, p4, p5 - 1)) - d2)

(* The lexer takes the number token at the start of src.                   *)
LexNumber ==
    /\ npc = "lex"
    /\ tokenLen' = NumberMatchLen(src)
    /\ npc' = IF NumberMatchLen(src) > 0 THEN "token" ELSE "nomatch"
    /\ UNCHANGED <<src, value>>
    /\ UNCHANGED <<unescapeVars, diagVars>>

(* transform = |v| v.parse().unwrap() on the token's text.                 *)
JsonNumberTransform ==
    /\ npc = "token"
    /\ LET r == F64Parse(SubSeq(src, 1, tokenLen)) IN
       IF r.tag = "Ok"
       THEN value' = r /\ npc' = "done"
       ELSE value' = value /\ npc' = "panicked"
    /\ UNCHANGED <<src, tokenLen>>
    /\ UNCHANGED <<unescapeVars, diagVars>>

----------------------------------------------------------------------------
(* convert_parse_error_to_diagnostics and main's error branch, app.rs.     *)

MaxNodes == 4

(* The spans [start, end) and the token text errors of the model carry.    *)
Spans == {<<0, 1>>, <<2, 2>>}
Toks == {","}

ParseError(reason, tok, span, errors) ==
    [reason |-> reason, tok |-> tok, start |-> span[1], end |-> span[2],
     errors |-> errors]

(* The ParseError trees of exactly n nodes whose root, when n > 1, has     *)
(* one of the forests fs as its children.                                  *)
TreesOfSize(n, fs) ==
    IF n = 1
    THEN {ParseError(r, k, sp, <<>>) :
            r \in {"MissingToken", "UnexpectedToken"}, k \in Toks, sp \in Spans}
         \cup {ParseError("FailedNode", "", sp, <<>>) : sp \in Spans}
    ELSE {ParseError("FailedNode", "", sp, f) : sp \in Spans, f \in fs}

(* The lists of trees (forests) of m nodes in all.                         *)
ForestsOfSize[m \in 0..MaxNodes] ==
    IF m = 0 THEN {<<>>}
    ELSE UNION {{<<e>> \o f : e \in TreesOfSize(k, ForestsOfSize[k - 1]),
                              f \in ForestsOfSize[m - k]} : k \in 1..m}

Diagnostic(message, error, label) ==
    [level |-> "Error", message |-> message, code |-> "S000",
     span |-> <<error.start, error.end>>, style |-> "Primary", label |-> label]

(* The translation with the `else` of app.rs:49 dropped: a FailedNode      *)
(* with children gets a diagnostic of its own as well.                     *)
RECURSIVE ConvertAlsoContainers(_, _), ConvertEachAlsoContainers(_, _)
ConvertAlsoContainers(error, diags) ==
    IF error.reason = "MissingToken" THEN
        Append(diags, Diagnostic(<<"Missing token: ", error.tok>>, error,
                                 <<"missing ", error.tok>>))
    ELSE IF error.reason = "UnexpectedToken" THEN
        Append(diags, Diagnostic(<<"Unexpected token: ", error.tok>>, error,
                                 <<"unexpected ", error.tok>>))
    ELSE ConvertEachAlsoContainers(error.errors,
            Append(diags, Diagnostic(<<"Failed to parse node">>, error, <<"failed">>)))

ConvertEachAlsoContainers(errors, diags) ==
    IF errors = <<>> THEN diags
    ELSE ConvertEachAlsoContainers(Tail(errors),
                                   ConvertAlsoContainers(Head(errors), diags))

RECURSIVE convert_parse_error_to_diagnostics(_, _), ConvertEach(_, _)
(* app.rs:9-56: the diagnostics list after the call.                       *)
convert_parse_error_to_diagnostics(error, diags) ==
    IF error.reason = "MissingToken" THEN
        Append(diags, Diagnostic(<<"Missing token: ", error.tok>>, error,
                                 <<"missing ", error.tok>>))
    ELSE IF error.reason = "UnexpectedToken" THEN
        Append(diags, Diagnostic(<<"Unexpected token: ", error.tok>>, error,
                                 <<"unexpected ", error.tok>>))
    ELSE IF error.errors = <<>> THEN
        Append(diags, Diagnostic(<<"Failed to parse node">>, error, <<"failed">>))
    ELSE ConvertEach(error.errors, diags)

(* app.rs:50-52: `for error in errors`, first to last.                     *)
ConvertEach(errors, diags) ==
    IF errors = <<>> THEN diags
    ELSE ConvertEach(Tail(errors),
                     convert_parse_error_to_diagnostics(Head(errors), diags))

(* app.rs:77-79: one iteration of `for error in errs`.                     *)
ConvertNext ==
    /\ dpc = "loop"
    /\ ei <= Len(errs)
    /\ diagnostics' = convert_parse_error_to_diagnostics(errs[ei], diagnostics)
    /\ ei' = ei + 1
    /\ UNCHANGED <<errs, dpc>>
    /\ UNCHANGED <<unescapeVars, numberVars>>

(* app.rs:81-83: the diagnostics are emitted and the process exits.        *)
EmitAndExit ==
    /\ dpc = "loop"
    /\ ei > Len(errs)
    /\ dpc' = "exited"
    /\ UNCHANGED <<errs, ei, diagnostics>>
    /\ UNCHANGED <<unescapeVars, numberVars>>

----------------------------------------------------------------------------
(* The three parts are run one at a time; a part that is not running is    *)
(* idle, with its variables as below.                                      *)
UnescapeIdle ==
    /\ s = <<>>
    /\ t = <<>>
    /\ unicode = FALSE
    /\ encoded = 0
    /\ escape = 0
    /\ result = NoResult
    /\ parsed = "none"

NumberIdle ==
    /\ src = <<>>
    /\ tokenLen = 0
    /\ npc = "idle"
    /\ value = NoValue

DiagIdle ==
    /\ errs = <<>>
    /\ ei = 1
    /\ diagnostics = <<>>
    /\ dpc = "idle"

(* unescape is entered with its locals as parser.rs:10-13 sets them.       *)
Init ==
    /\ UnescapeIdle
    /\ pc = "loop"
    /\ NumberIdle
    /\ DiagIdle

Next ==
    \/ \E i \in Chars, wraps \in BOOLEAN : LoopIter(i, wraps)
    \/ Return
    \/ JsonStringTransform

Spec == Init /\ [][Next]_vars

(* The lexer stands at the start of a source text.                         *)
InitNumber ==
    /\ UnescapeIdle
    /\ pc = "idle"
    /\ src \in SeqsUpTo(NumAlphabet, MaxSrc)
    /\ tokenLen = 0
    /\ npc = "lex"
    /\ value = NoValue
    /\ DiagIdle

NextNumber ==
    \/ LexNumber
    \/ JsonNumberTransform

SpecNumber == InitNumber /\ [][NextNumber]_vars

(* main has taken the Err(errs) branch: app.rs:73-76.                      *)
InitDiag ==
    /\ UnescapeIdle
    /\ pc = "idle"
    /\ NumberIdle
    /\ errs \in UNION {ForestsOfSize[m] : m \in 1..MaxNodes}
    /\ ei = 1
    /\ diagnostics = <<>>
    /\ dpc = "loop"

NextDiag ==
    \/ ConvertNext
    \/ EmitAndExit

SpecDiag == InitDiag /\ [][NextDiag]_vars

----------------------------------------------------------------------------
(* Properties.                                                             *)

EscapeErrors == {"UnfinishedEscapeSequence", "UnicodeError"}

(* C1: whatever the body, unescape ends in a decoded string or one of the  *)
(* two EscapeErrors; it never panics.                                      *)
C1_UnescapeNeverPanics ==
    /\ pc # "panicked"
    /\ pc = "returned" => result.tag \in {"Ok"} \cup EscapeErrors

(* C2: when the body of a string literal fails escape decoding, parse      *)
(* returns Err: no value, no abort.                                        *)
C2_FailedBodyGivesErr ==
    (/\ pc = "returned"
     /\ result.tag \in EscapeErrors
     /\ s # <<>> /\ s[Len(s)] # CH_BACKSLASH
     /\ parsed # "none")
        => parsed = "Err"

(* The hex digits 0-9, A-F, a-f and the number each stands for.            *)
HexDigits == (CH_0..CH_9) \cup (CH_A..CH_F) \cup ((CH_A + 32)..CH_f)
HexValue(c) ==
    IF c <= CH_9 THEN c - CH_0
    ELSE IF c <= CH_F THEN 10 + c - CH_A
    ELSE 10 + c - (CH_A + 32)
Hex4(b, k) ==
    HexValue(b[k]) * 4096 + HexValue(b[k + 1]) * 256 + HexValue(b[k + 2]) * 16
        + HexValue(b[k + 3])

(* The body is \u followed by four hex digits.                             *)
IsHexEscape(b) ==
    /\ Len(b) = 6
    /\ b[1] = CH_BACKSLASH
    /\ b[2] = CH_u
    /\ \A k \in 3..6 : b[k] \in HexDigits

(* C3: scanning \u and four hex digits pushes the one code unit they       *)
(* spell and leaves unicode mode; a non-surrogate unit is returned as the  *)
(* one-character string.                                                   *)
C3_HexEscapePushesItsUnit ==
    IsHexEscape(s) =>
        /\ pc # "panicked"
        /\ t = <<Hex4(s, 3)>>
        /\ ~unicode
        /\ escape = 0
        /\ (pc = "returned" /\ ~IsHigh(Hex4(s, 3)) /\ ~IsLow(Hex4(s, 3)))
              => result = Ok(<<Hex4(s, 3)>>)

(* The first backslash of b starts a \u escape with fewer than four hex    *)
(* digits after it.                                                        *)
HasShortUnicodeEscape(b) ==
    \E k \in 1..Len(b) :
        /\ b[k] = CH_BACKSLASH
        /\ \A j \in 1..(k - 1) : b[j] # CH_BACKSLASH
        /\ k + 1 <= Len(b)
        /\ b[k + 1] = CH_u
        /\ \E j \in (k + 2)..(k + 5) : j > Len(b) \/ b[j] \notin HexDigits

(* C4: a body with \u followed by fewer than four hex digits is never      *)
(* decoded to a string.                                                    *)
C4_ShortUnicodeEscapeFails ==
    (pc = "returned" /\ HasShortUnicodeEscape(s)) => result.tag # "Ok"

(* Every high surrogate is followed by a low one and every low surrogate   *)
(* preceded by a high one.                                                 *)
WellPaired(v) ==
    \A k \in 1..Len(v) :
        /\ IsHigh(v[k]) => k < Len(v) /\ IsLow(v[k + 1])
        /\ IsLow(v[k]) => k > 1 /\ IsHigh(v[k - 1])

(* out is v with each surrogate pair replaced by its code point.           *)
CharStarts(v) == {k \in 1..Len(v) : ~IsLow(v[k])}
PairedText(v, out) ==
    /\ Len(out) = Cardinality(CharStarts(v))
    /\ \A k \in CharStarts(v) :
          out[Cardinality({j \in CharStarts(v) : j <= k})] =
              IF IsHigh(v[k])
              THEN 65536 + (v[k] - 55296) * 1024 + (v[k + 1] - 56320)
              ELSE v[k]

(* C5: with no escape pending at the end of the scan, a well-paired buffer *)
(* decodes with each pair as one code point, and any other buffer is a     *)
(* UnicodeError.                                                           *)
C5_Reassembly ==
    (pc = "returned" /\ escape = 0) =>
        IF WellPaired(t)
        THEN result.tag = "Ok" /\ PairedText(t, result.val)
        ELSE result = Err("UnicodeError")

(* \uD83D\uDE10 has been scanned and decoded to U+1F610.                   *)
C5_Witness ==
    /\ pc = "returned"
    /\ s = EscapeOf(55357) \o EscapeOf(56848)
    /\ t = <<55357, 56848>>
    /\ result = Ok(<<128528>>)

(* C6: a scan that ends with the escape counter above 0 fails with         *)
(* UnfinishedEscapeSequence, also when the buffer holds an unpaired        *)
(* surrogate.                                                              *)
C6_UnfinishedBeforeReassembly ==
    (pc = "returned" /\ escape > 0) => result = Err("UnfinishedEscapeSequence")

(* \uD800\ has been scanned: a lone surrogate in the buffer, one escape    *)
(* pending.                                                                *)
C6_Witness ==
    /\ pc = "returned"
    /\ s = EscapeOf(55296) \o <<CH_BACKSLASH>>
    /\ ~WellPaired(t)
    /\ escape > 0
    /\ result = Err("UnfinishedEscapeSequence")

(* The source is digits, an optional fraction, then e or E at position k   *)
(* with no digit after it.                                                 *)
DanglingExponentAt(text, k) ==
    /\ k \in 2..Len(text)
    /\ text[k] \in {CH_e, CH_E}
    /\ DigitRun(text, 1) >= 1
    /\ \/ DigitRun(text, 1) = k - 1
       \/ /\ DigitRun(text, 1) < k - 1
          /\ text[DigitRun(text, 1) + 1] = CH_DOT
          /\ DigitRun(text, DigitRun(text, 1) + 2) = k - 2 - DigitRun(text, 1)
    /\ DigitRun(text, k + 1) = 0

(* C7: with no exponent digit after the e, the number token ends before    *)
(* the e and the number is the value of the text before it.                *)
C7_TokenEndsBeforeDanglingE ==
    \A k \in 1..Len(src) :
        (DanglingExponentAt(src, k) /\ npc # "lex") =>
            /\ tokenLen = k - 1
            /\ npc # "panicked"
            /\ npc = "done" => value = F64Parse(SubSeq(src, 1, k - 1))

(* The leaves of a ParseError tree, left to right.                         *)
RECURSIVE Leaves(_)
Leaves(error) ==
    IF error.reason = "FailedNode" /\ error.errors # <<>>
    THEN Flatten([k \in 1..Len(error.errors) |-> Leaves(error.errors[k])])
    ELSE <<error>>

LeafMessage(leaf) ==
    IF leaf.reason = "MissingToken" THEN <<"Missing token: ", leaf.tok>>
    ELSE IF leaf.reason = "UnexpectedToken" THEN <<"Unexpected token: ", leaf.tok>>
    ELSE <<"Failed to parse node">>

(* C8: the diagnostics are one per leaf of the trees translated so far,    *)
(* in leaf order, each with its leaf's span; a call only appends.          *)
C8_OneDiagnosticPerLeaf ==
    dpc # "idle" =>
        LET done == Flatten([k \in 1..(ei - 1) |-> Leaves(errs[k])]) IN
        /\ Len(diagnostics) = Len(done)
        /\ \A k \in 1..Len(done) :
              /\ diagnostics[k].span = <<done[k].start, done[k].end>>
              /\ diagnostics[k].message = LeafMessage(done[k])

(* Two trees translated, the second into a list that held diagnostics,     *)
(* one of them a FailedNode whose children are leaves of different spans.  *)
C8_Witness ==
    /\ dpc = "exited"
    /\ Len(errs) = 2
    /\ Len(diagnostics) = 3
    /\ \E k \in 1..2 :
          /\ Len(errs[k].errors) = 2
          /\ errs[k].errors[1].start # errs[k].errors[2].start

(* C9: in unicode mode no value of the accumulator reaches 2^16, whatever  *)
(* accepted character comes next.                                          *)
C9_AccumulatorBelow2To16 ==
    (pc = "loop" /\ escape > 0 /\ unicode) =>
        \A i \in Chars :
            (InputOK(Append(s, i)) /\ MatchEscape(i, unicode).arm = "value")
                => encoded * 16 + MatchEscape(i, unicode).ch < U16

(* C10: a body without a backslash is returned unchanged.                  *)
C10_NoBackslashIsIdentity ==
    (pc = "returned" /\ \A k \in 1..Len(s) : s[k] # CH_BACKSLASH)
        => result = Ok(s)
====
